---- MODULE Spec2Model ----
(***************************************************************************)
(* Work-stealing task queue of src/share/vm/utilities/taskqueue.hpp:       *)
(* GenericTaskQueue (one owner, any number of thieves), and the            *)
(* ParallelTaskTerminator over a GenericTaskQueueSet.                      *)
(*                                                                         *)
(* Every access to _bottom, _age and _elems that another thread can        *)
(* observe is a step of its own; accesses are sequentially consistent      *)
(* (volatile accesses plus the fence of pop_local).                        *)
(***************************************************************************)
EXTENDS Integers, Sequences, FiniteSets, TLC

VARIABLES
  \* ---- GenericTaskQueue: shared fields
  bottom,      \* _bottom
  age,         \* _age: [top, tag]
  elems,       \* _elems[0 .. n()-1]
  \* ---- the owner thread (push, pop_local)
  o_pc,        \* position inside push / pop_local
  o_localBot,  \* localBot
  o_dirty,     \* dirty_n_elems as last computed by push / pop_local
  o_t,         \* the element being pushed / popped
  o_oldAge,    \* oldAge passed to pop_local_slow
  o_res,       \* outcome of the owner's last finished call
  \* ---- the thieves (pop_global)
  g_pc, g_oldAge, g_localBot, g_t,
  g_res,       \* outcome of each thief's last finished call
  \* ---- history
  pushed,      \* number of successful pushes; the elements are 1 .. pushed
  localSeq,    \* elements returned by successful pop_local calls, in order
  stolen,      \* per thief: elements returned by its successful pop_global calls
  g_other,     \* per thief: another pop claimed an element during the current call
  g_canon,     \* per thief: the owner's set_age ran during the current call
  g_stale,     \* per thief: a pop_local slow path returned during the current call
  assertFailed,\* some assert(...) of the source evaluated to false
  \* ---- ParallelTaskTerminator over a queue set (abstract per-queue sizes)
  offered,     \* _offered_termination
  w_pc,        \* per worker: position
  w_q,         \* per worker: its deque, [bot, top]
  w_budget,    \* tasks the workers may still create
  w_j,         \* per worker: loop index j of GenericTaskQueueSet::peek
  w_ret,       \* per worker: result of its last offer_termination
  w_late,      \* history: a task was pushed while some worker was offering
  \* ---- GenericTaskQueueSet: one thread inside steal / steal_1_random
  s_n,         \* _n
  s_q,         \* _queues[0 .. _n-1], each [bot, top]
  s_budget,    \* tasks the queues' owners may still push
  s_pc,        \* position of the stealing thread
  s_op,        \* the method it called last
  s_self,      \* queue_num
  s_i,         \* loop index i of steal
  s_k1, s_k2, s_sz1, s_sz2,
  s_target,    \* index of the queue pop_global is about to be called on
  s_ret,       \* result of the last finished call
  s_hist,      \* history of the current / last call
  \* ---- the owner following a fixed sequence of calls
  sc           \* [phase, k, ok, wrapped]

dqvars == <<bottom, age, elems, o_pc, o_localBot, o_dirty, o_t, o_oldAge, o_res,
            g_pc, g_oldAge, g_localBot, g_t, g_res,
            pushed, localSeq, stolen, g_other, g_canon, g_stale, assertFailed>>
tmvars == <<offered, w_pc, w_q, w_budget, w_j, w_ret, w_late>>
stvars == <<s_n, s_q, s_budget, s_pc, s_op, s_self, s_i, s_k1, s_k2, s_sz1, s_sz2,
            s_target, s_ret, s_hist>>
vars == <<dqvars, tmvars, stvars, sc>>

(***************************************************************************)
(* Bounds of the model.                                                    *)
(***************************************************************************)
Log_n == 2          \* Log_n of the source is 14; the queue has 2^Log_n slots
MaxPush == 4        \* successful pushes in one behaviour
NThieves == 2       \* threads calling pop_global
NWorkers == 2       \* _n_threads, and the number of queues in the set
MaxWork == 3        \* tasks the workers create in one behaviour
MaxQueues == 3      \* largest _n of a GenericTaskQueueSet

(***************************************************************************)
(* Program constants.                                                      *)
(***************************************************************************)
TagMod == 65536     \* jushort _tag

Thieves == 1 .. NThieves
Workers == 0 .. NWorkers - 1

(***************************************************************************)
(* TaskQueueSuper: index arithmetic.                                       *)
(***************************************************************************)
n == 2 ^ Log_n
n_mod_mask == n - 1
max_elems_one_short == n - 1
max_elems == n - 2

increment_index(ind) == (ind + 1) % n
decrement_index_none(ind) == ind % n
decrement_index(ind) == (ind - 1) % n

dirty_size(bot, top) == (bot - top) % n

size_unmapped(bot, top) == dirty_size(bot, top)
size(bot, top) ==
  LET sz == dirty_size(bot, top)
  IN  IF sz = n - 1 THEN 0 ELSE sz

AgeEq_top_only(a1, a2) == a1.top = a2.top
AgeEq_tag_vs_top(a1, a2) == a1.tag = a2.tag /\ a1.top = a2.tag
\* Age::operator==, which decides "resAge == oldAge" after each cmpxchg
AgeEq(a1, a2) == a1.tag = a2.tag /\ a1.top = a2.top

NewAgeSlow_keep_top(localBot, oldAge) ==
  [top |-> oldAge.top, tag |-> (oldAge.tag + 1) % TagMod]
NewAgeSlow_same_tag(localBot, oldAge) ==
  [top |-> localBot, tag |-> oldAge.tag]
NewAgeSlow(localBot, oldAge) ==
  [top |-> localBot, tag |-> (oldAge.tag + 1) % TagMod]

NewAgeGlobal_backwards(oldAge) ==
  [top |-> decrement_index(oldAge.top), tag |-> oldAge.tag]
NewAgeGlobal(oldAge) ==
  LET t1 == increment_index(oldAge.top)
  IN  [top |-> t1,
       tag |-> IF t1 = 0 THEN (oldAge.tag + 1) % TagMod ELSE oldAge.tag]

(***************************************************************************)
(* History helpers.                                                        *)
(***************************************************************************)
Count(s, e) == Cardinality({i \in 1 .. Len(s) : s[i] = e})
RECURSIVE SumLen(_, _)
SumLen(f, S) ==
  IF S = {} THEN 0
  ELSE LET x == CHOOSE y \in S : TRUE
       IN  Len(f[x]) + SumLen(f, S \ {x})
NLocal == Len(localSeq)
NGlobal == SumLen(stolen, Thieves)
PopCount(e) ==
  Count(localSeq, e)
  + Cardinality({<<t, i>> \in Thieves \X (1 .. MaxPush + 2) :
                   i <= Len(stolen[t]) /\ stolen[t][i] = e})
Unclaimed == {e \in 1 .. pushed : PopCount(e) = 0}
InCall(t) == g_pc[t] # "idle"
\* a pop by `who` (0 = owner, else the thief) has just claimed an element
NoteClaim(who) ==
  g_other' = [t \in Thieves |-> IF t # who /\ InCall(t) THEN TRUE ELSE g_other[t]]

ZeroAge == [top |-> 0, tag |-> 0]

\* the empty deque with top == bottom == 0 and the given tag
DequeStart(tag0) ==
  /\ bottom = 0
  /\ age = [top |-> 0, tag |-> tag0]
  /\ elems = [i \in 0 .. n - 1 |-> 0]
  /\ o_pc = "idle"
  /\ o_localBot = 0
  /\ o_dirty = 0
  /\ o_t = 0
  /\ o_oldAge = [top |-> 0, tag |-> 0]
  /\ o_res = "none"
  /\ g_pc = [t \in Thieves |-> "idle"]
  /\ g_oldAge = [t \in Thieves |-> ZeroAge]
  /\ g_localBot = [t \in Thieves |-> 0]
  /\ g_t = [t \in Thieves |-> 0]
  /\ g_res = [t \in Thieves |-> "none"]
  /\ pushed = 0
  /\ localSeq = <<>>
  /\ stolen = [t \in Thieves |-> <<>>]
  /\ g_other = [t \in Thieves |-> FALSE]
  /\ g_canon = [t \in Thieves |-> FALSE]
  /\ g_stale = [t \in Thieves |-> FALSE]
  /\ assertFailed = FALSE

DequeInit == DequeStart(0)

thvars == <<g_pc, g_oldAge, g_localBot, g_t, g_res, stolen>>
ownloc == <<o_localBot, o_dirty, o_t, o_oldAge>>

(***************************************************************************)
(* GenericTaskQueue::push (with push_slow).                                *)
(***************************************************************************)
\* juint localBot = _bottom;
PushCall ==
  /\ o_pc = "idle"
  /\ pushed < MaxPush
  /\ o_pc' = "push_top"
  /\ o_localBot' = bottom
  /\ o_t' = pushed + 1
  /\ o_res' = "none"
  /\ UNCHANGED <<bottom, age, elems, o_dirty, o_oldAge, thvars, pushed, localSeq,
                 g_other, g_canon, g_stale, assertFailed>>

\* top = get_top(); dirty_n_elems = dirty_size(localBot, top);
\* fast path if dirty_n_elems < max_elems(), else push_slow
PushReadTop ==
  /\ o_pc = "push_top"
  /\ LET d == dirty_size(o_localBot, age.top)
     IN  /\ o_dirty' = d
         /\ IF d < max_elems \/ d = n - 1
            THEN /\ o_pc' = "push_store"
                 /\ UNCHANGED <<o_res, o_localBot, o_t>>
            ELSE /\ o_pc' = "idle"
                 /\ o_res' = "push_false"
                 /\ o_localBot' = 0
                 /\ o_t' = 0
  /\ UNCHANGED <<bottom, age, elems, o_oldAge, thvars, pushed,
                 localSeq, g_other, g_canon, g_stale, assertFailed>>

\* _elems[localBot] = t;
PushStore ==
  /\ o_pc = "push_store"
  /\ elems' = [elems EXCEPT ![o_localBot] = o_t]
  /\ o_pc' = "push_publish"
  /\ UNCHANGED <<bottom, age, ownloc, o_res, thvars, pushed, localSeq, g_other,
                 g_canon, g_stale, assertFailed>>

\* _bottom = increment_index(localBot); return true;
PushPublish ==
  /\ o_pc = "push_publish"
  /\ bottom' = increment_index(o_localBot)
  /\ pushed' = pushed + 1
  /\ o_pc' = "idle"
  /\ o_res' = "push_true"
  /\ o_localBot' = 0
  /\ o_t' = 0
  /\ UNCHANGED <<age, elems, o_dirty, o_oldAge, thvars, localSeq, g_other, g_canon,
                 g_stale,
                 assertFailed>>

(***************************************************************************)
(* GenericTaskQueue::pop_local (with pop_local_slow).                      *)
(***************************************************************************)
\* localBot = _bottom; dirty_n_elems = dirty_size(localBot, get_top());
\* assert(dirty_n_elems != n() - 1); if (dirty_n_elems == 0) return false;
PopLocalCall ==
  /\ o_pc = "idle"
  /\ LET d == dirty_size(bottom, age.top)
     IN  /\ o_dirty' = d
         /\ assertFailed' = (assertFailed \/ d = n - 1)
         /\ IF d = 0
            THEN o_pc' = "idle" /\ o_res' = "pop_false" /\ o_localBot' = 0
            ELSE o_pc' = "pl_dec" /\ o_res' = "none" /\ o_localBot' = bottom
  /\ UNCHANGED <<bottom, age, elems, o_t, o_oldAge, thvars, pushed, localSeq,
                 g_other, g_canon, g_stale>>

\* localBot = decrement_index(localBot); _bottom = localBot; fence
PopLocalDec ==
  /\ o_pc = "pl_dec"
  /\ o_localBot' = decrement_index(o_localBot)
  /\ bottom' = decrement_index(o_localBot)
  /\ o_pc' = "pl_top"
  /\ UNCHANGED <<age, elems, o_dirty, o_t, o_oldAge, o_res, thvars, pushed,
                 localSeq, g_other, g_canon, g_stale, assertFailed>>

\* t = _elems[localBot]; tp = get_top(); if (size(localBot, tp) > 0) return true;
PopLocalReadTop ==
  /\ o_pc = "pl_top"
  /\ IF size(o_localBot, age.top) > 0
     THEN /\ o_pc' = "idle"
          /\ o_res' = "pop_true"
          /\ localSeq' = Append(localSeq, elems[o_localBot])
          /\ NoteClaim(0)
          /\ o_localBot' = 0
          /\ o_t' = 0
     ELSE /\ o_pc' = "pl_age"
          /\ o_t' = elems[o_localBot]
          /\ UNCHANGED <<o_res, localSeq, g_other, o_localBot>>
  /\ UNCHANGED <<bottom, age, elems, o_dirty, o_oldAge, thvars, pushed,
                 g_canon, g_stale, assertFailed>>

\* pop_local_slow(localBot, get_age())
PopLocalReadAge ==
  /\ o_pc = "pl_age"
  /\ o_oldAge' = age
  /\ o_pc' = IF o_localBot = age.top THEN "pl_cas" ELSE "pl_set_age"
  /\ UNCHANGED <<bottom, age, elems, o_localBot, o_dirty, o_t, o_res, thvars,
                 pushed, localSeq, g_other, g_canon, g_stale, assertFailed>>

\* if (localBot == oldAge.top()) { cmpxchg(newAge, &_age, oldAge); we win? }
PopLocalCas ==
  /\ o_pc = "pl_cas"
  /\ age' = IF age = o_oldAge THEN NewAgeSlow(o_localBot, o_oldAge) ELSE age
  /\ IF AgeEq(age, o_oldAge)
     THEN /\ o_pc' = "idle"
          /\ o_res' = "pop_true"
          /\ localSeq' = Append(localSeq, o_t)
          /\ NoteClaim(0)
          /\ assertFailed' =
               (assertFailed \/ dirty_size(o_localBot, age'.top) = n - 1)
          /\ g_stale' = [t \in Thieves |-> IF InCall(t) THEN TRUE ELSE g_stale[t]]
          /\ o_localBot' = 0
          /\ o_t' = 0
          /\ o_oldAge' = ZeroAge
     ELSE /\ o_pc' = "pl_set_age"
          /\ UNCHANGED <<o_res, localSeq, g_other, g_stale, assertFailed, o_localBot,
                         o_t, o_oldAge>>
  /\ UNCHANGED <<bottom, elems, o_dirty, thvars, pushed, g_canon>>

\* set_age(newAge); assert(...); return false;
PopLocalSetAge ==
  /\ o_pc = "pl_set_age"
  /\ age' = NewAgeSlow(o_localBot, o_oldAge)
  /\ o_pc' = "idle"
  /\ o_res' = "pop_false"
  /\ g_canon' = [t \in Thieves |-> IF InCall(t) THEN TRUE ELSE g_canon[t]]
  /\ g_stale' = [t \in Thieves |-> IF InCall(t) THEN TRUE ELSE g_stale[t]]
  /\ assertFailed' = (assertFailed \/ dirty_size(o_localBot, age'.top) = n - 1)
  /\ o_localBot' = 0
  /\ o_t' = 0
  /\ o_oldAge' = ZeroAge
  /\ UNCHANGED <<bottom, elems, o_dirty, thvars, pushed, localSeq, g_other>>

(***************************************************************************)
(* GenericTaskQueue::pop_global.                                           *)
(***************************************************************************)
\* Age oldAge = get_age();
PopGlobalReadAge(t) ==
  /\ g_pc[t] = "idle"
  /\ g_oldAge' = [g_oldAge EXCEPT ![t] = age]
  /\ g_pc' = [g_pc EXCEPT ![t] = "pg_bottom"]
  /\ g_res' = [g_res EXCEPT ![t] = "none"]
  /\ g_other' = [g_other EXCEPT ![t] = FALSE]
  /\ g_canon' = [g_canon EXCEPT ![t] = FALSE]
  /\ g_stale' = [g_stale EXCEPT ![t] = FALSE]
  /\ UNCHANGED <<bottom, age, elems, o_pc, ownloc, o_res, g_localBot, g_t, pushed,
                 localSeq, stolen, assertFailed>>

\* localBot = _bottom; n_elems = size(localBot, oldAge.top());
\* if (n_elems == 0) return false;
PopGlobalReadBottom(t) ==
  /\ g_pc[t] = "pg_bottom"
  /\ IF size(bottom, g_oldAge[t].top) = 0
     THEN /\ g_pc' = [g_pc EXCEPT ![t] = "idle"]
          /\ g_res' = [g_res EXCEPT ![t] = "empty"]
          /\ g_oldAge' = [g_oldAge EXCEPT ![t] = ZeroAge]
          /\ g_other' = [g_other EXCEPT ![t] = FALSE]
          /\ g_canon' = [g_canon EXCEPT ![t] = FALSE]
          /\ g_stale' = [g_stale EXCEPT ![t] = FALSE]
          /\ UNCHANGED g_localBot
     ELSE /\ g_pc' = [g_pc EXCEPT ![t] = "pg_load"]
          /\ g_localBot' = [g_localBot EXCEPT ![t] = bottom]
          /\ UNCHANGED <<g_res, g_oldAge, g_other, g_canon, g_stale>>
  /\ UNCHANGED <<bottom, age, elems, o_pc, ownloc, o_res, g_t, pushed,
                 localSeq, stolen, assertFailed>>

\* t = _elems[oldAge.top()];
PopGlobalLoad(t) ==
  /\ g_pc[t] = "pg_load"
  /\ g_t' = [g_t EXCEPT ![t] = elems[g_oldAge[t].top]]
  /\ g_pc' = [g_pc EXCEPT ![t] = "pg_cas"]
  /\ UNCHANGED <<bottom, age, elems, o_pc, ownloc, o_res, g_oldAge, g_localBot,
                 g_res, pushed, localSeq, stolen, g_other, g_canon, g_stale,
                 assertFailed>>

\* newAge = oldAge with top incremented (tag too if top wrapped to 0);
\* resAge = cmpxchg(newAge, &_age, oldAge); assert(...); return resAge == oldAge;
PopGlobalCas(t) ==
  /\ g_pc[t] = "pg_cas"
  /\ g_pc' = [g_pc EXCEPT ![t] = "idle"]
  /\ assertFailed' =
       (assertFailed
          \/ dirty_size(g_localBot[t], NewAgeGlobal(g_oldAge[t]).top) = n - 1)
  /\ age' = IF age = g_oldAge[t] THEN NewAgeGlobal(g_oldAge[t]) ELSE age
  /\ IF AgeEq(age, g_oldAge[t])
     THEN /\ g_res' = [g_res EXCEPT ![t] = "true"]
          /\ stolen' = [stolen EXCEPT ![t] = Append(@, g_t[t])]
          /\ g_other' = [u \in Thieves |->
                           IF u # t /\ InCall(u) THEN TRUE
                           ELSE IF u = t THEN FALSE ELSE g_other[u]]
          /\ g_canon' = [g_canon EXCEPT ![t] = FALSE]
     ELSE /\ g_res' = [g_res EXCEPT ![t] = "lost"]
          /\ UNCHANGED <<stolen, g_other, g_canon>>
  /\ g_stale' = [g_stale EXCEPT ![t] = FALSE]
  /\ g_oldAge' = [g_oldAge EXCEPT ![t] = ZeroAge]
  /\ g_localBot' = [g_localBot EXCEPT ![t] = 0]
  /\ g_t' = [g_t EXCEPT ![t] = 0]
  /\ UNCHANGED <<bottom, elems, o_pc, ownloc, o_res, pushed, localSeq>>

Owner ==
  \/ PushCall
  \/ PushReadTop
  \/ PushStore
  \/ PushPublish
  \/ PopLocalCall
  \/ PopLocalDec
  \/ PopLocalReadTop
  \/ PopLocalReadAge
  \/ PopLocalCas
  \/ PopLocalSetAge

Thief(t) ==
  \/ PopGlobalReadAge(t)
  \/ PopGlobalReadBottom(t)
  \/ PopGlobalLoad(t)
  \/ PopGlobalCas(t)

(***************************************************************************)
(* Properties of one deque.                                                *)
(***************************************************************************)
Last(s) == s[Len(s)]
Max(S) == CHOOSE x \in S : \A y \in S : y <= x
Live == pushed - NLocal - NGlobal
Quiescent == o_pc = "idle" /\ \A t \in Thieves : g_pc[t] = "idle"
LocalPopStep == Len(localSeq') = Len(localSeq) + 1
StealStep(t) == Len(stolen'[t]) = Len(stolen[t]) + 1
\* the occupied slots [top, bottom) and how often e is stored in them
Slots == {(age.top + i) % n : i \in 0 .. dirty_size(bottom, age.top) - 1}
InDeque(e) == Cardinality({i \in Slots : elems[i] = e})

\* C1: no element that was pushed once is returned by more than one
\* successful pop (pop_local or pop_global, of any thread).
C1_NoDuplicates == \A e \in 1 .. MaxPush : PopCount(e) <= 1

\* the last element was contested: the owner won it by CAS after a thief had
\* loaded it, the thief lost, and both threads have taken other elements too
C1_Witness ==
  /\ o_res = "pop_true"
  /\ NLocal >= 1
  /\ \E t \in Thieves : g_res[t] = "lost" /\ Len(stolen[t]) >= 1
  /\ \A t \in Thieves : Len(stolen[t]) >= 1

\* C2: every element returned by a successful pop was stored by an earlier
\* successful push and was not yet claimed; and when the CAS of pop_global
\* succeeds, the value it loaded before the CAS is the content of slot top
\* at the moment of the CAS.
C2_NoPhantoms ==
  [][ /\ LocalPopStep => Last(localSeq') \in Unclaimed
      /\ \A t \in Thieves :
           StealStep(t) =>
             /\ Last(stolen'[t]) \in Unclaimed
             /\ Last(stolen'[t]) = elems[age.top] ]_vars

\* a thief's CAS has succeeded on the third element pushed, after a
\* pop_local, while the other thief lost its CAS
C2_Witness ==
  \E t \in Thieves :
    /\ g_res[t] = "true"
    /\ Len(stolen[t]) >= 1
    /\ Last(stolen[t]) = 3
    /\ NLocal >= 1
    /\ \E u \in Thieves : u # t /\ g_res[u] = "lost"

\* C3: when no operation is in progress, L + G <= P, every pushed element
\* is either returned by exactly one pop or stored in exactly one slot of
\* [top, bottom), nothing else was returned, and size() = P - L - G.
C3_Conservation ==
  Quiescent =>
    /\ NLocal + NGlobal <= pushed
    /\ \A e \in 1 .. MaxPush :
         PopCount(e) + InDeque(e) = (IF e <= pushed THEN 1 ELSE 0)
    /\ PopCount(0) = 0
    /\ \A i \in Slots : elems[i] \in 1 .. pushed
    /\ size(bottom, age.top) = Live

C3_Witness ==
  /\ Quiescent
  /\ pushed = MaxPush
  /\ NLocal >= 1
  /\ NGlobal >= 1
  /\ size(bottom, age.top) >= 1

\* C4: push returns false exactly when the dirty size it computed is n - 2,
\* which is when the deque holds n - 2 elements; otherwise it stores the
\* element at _elems[_bottom] and advances _bottom by one mod n; the deque
\* never holds more than n - 2 elements.
C4_PushFull ==
  /\ [](/\ o_res = "push_false" => o_dirty = n - 2
        /\ o_res = "push_true" => o_dirty # n - 2
        /\ Live <= n - 2)
  /\ [][ /\ (o_pc = "push_top" /\ o_pc' = "idle") => (Live = n - 2)
         /\ (o_pc = "push_top" /\ o_pc' # o_pc /\ Live = n - 2) =>
              o_res' = "push_false"
         /\ (o_pc = "push_publish" /\ o_pc' = "idle") =>
              /\ o_res' = "push_true"
              /\ bottom' = (bottom + 1) % n
              /\ elems[bottom] = pushed'
              /\ elems' = elems /\ age' = age ]_vars

\* a push has been refused while both thieves were inside pop_global
C4_Witness ==
  /\ o_res = "push_false"
  /\ Live = n - 2
  /\ \A t \in Thieves : InCall(t)

\* C5: every successful pop_local returns the most recently pushed element
\* that no pop has claimed yet, also while thieves steal from the top.
C5_Lifo ==
  [][ LocalPopStep =>
        /\ Unclaimed # {}
        /\ Last(localSeq') = Max(Unclaimed) ]_vars

\* the owner popped 3 then 2 after a thief had stolen 1
C5_Witness ==
  /\ localSeq = <<3, 2>>
  /\ \E t \in Thieves : stolen[t] = <<1>>

\* C6: the elements one thief obtains come out in push order: each
\* thief's sequence of stolen elements is strictly increasing.
C6_ThiefFifo ==
  \A t \in Thieves :
    \A i \in 1 .. (MaxPush + 1) :
      \A j \in 1 .. (MaxPush + 1) :
        (i < j /\ j <= Len(stolen[t])) => stolen[t][i] < stolen[t][j]

\* one thief stole twice, with a pop_local and a further push in between
C6_Witness ==
  \E t \in Thieves :
    /\ Len(stolen[t]) = 2
    /\ stolen[t][2] > stolen[t][1] + 1
    /\ NLocal >= 1

\* C7: when pop_local has returned false, every element pushed so far has
\* been claimed by some successful pop.
C7_PopLocalFalseMeansEmpty == (o_res = "pop_false") => Unclaimed = {}

\* pop_local lost the last element to a thief on its slow path
C7_Witness ==
  /\ o_res = "pop_false"
  /\ pushed >= 2
  /\ NGlobal >= 1
  /\ age.tag >= 1

TermIdle ==
  /\ offered = 0
  /\ w_pc = <<>>
  /\ w_q = <<>>
  /\ w_budget = 0
  /\ w_j = <<>>
  /\ w_ret = <<>>
  /\ w_late = FALSE

\* no queue set is in use
StealIdle ==
  /\ s_n = 0
  /\ s_q = <<>>
  /\ s_budget = 0
  /\ s_pc = "idle"
  /\ s_op = "none"
  /\ s_self = 0
  /\ s_i = 0
  /\ s_k1 = 0
  /\ s_k2 = 0
  /\ s_sz1 = 0
  /\ s_sz2 = 0
  /\ s_target = 0
  /\ s_ret = "none"
  /\ s_hist = <<>>

\* the owner follows no fixed sequence of calls
ScriptIdle == sc = [phase |-> 0, k |-> 0, ok |-> TRUE, wrapped |-> FALSE]

Init == DequeInit /\ TermIdle /\ StealIdle /\ ScriptIdle

Next ==
  \/ (Owner /\ UNCHANGED <<tmvars, stvars, sc>>)
  \/ (\E t \in Thieves : Thief(t) /\ UNCHANGED <<tmvars, stvars, sc>>)

Spec == Init /\ [][Next]_vars

\* The same deque after long use: empty with top == bottom == 0, as 65535
\* rounds of push followed by pop_local leave it (each round ends in the
\* slow path of pop_local, which adds one to the tag).
InitLongUse == DequeStart(TagMod - 1) /\ TermIdle /\ StealIdle /\ ScriptIdle

SpecLongUse == InitLongUse /\ [][Next]_vars

(***************************************************************************)
(* ParallelTaskTerminator over a GenericTaskQueueSet of NWorkers queues.   *)
(* Worker w owns queue w.  A worker processes one task at a time ("busy"), *)
(* pushing the tasks it creates on its own queue; between tasks ("work")   *)
(* it pops locally, steals, or, its queue being empty, offers termination. *)
(* Queue operations are taken as single steps here.                        *)
(***************************************************************************)
TermInit ==
  /\ offered = 0
  /\ w_pc = [w \in Workers |-> "busy"]
  /\ w_q = [w \in Workers |-> [bot |-> 0, top |-> 0]]
  /\ w_budget = MaxWork
  /\ w_j = [w \in Workers |-> 0]
  /\ w_ret = [w \in Workers |-> "none"]
  /\ w_late = FALSE

\* worker w is inside offer_termination
InOffer(w) == w_pc[w] \in {"off_check", "off_yield", "off_peek", "off_dec"}

\* TaskQueueSuper::peek(): true if size() reports > 0
TQ_peek(q) == size(q.bot, q.top) > 0

\* GenericTaskQueue::push, on the worker's own queue
WPush(w) ==
  /\ w_pc[w] = "busy"
  /\ w_budget > 0
  /\ dirty_size(w_q[w].bot, w_q[w].top) < max_elems
  /\ w_q' = [w_q EXCEPT ![w].bot = increment_index(@)]
  /\ w_budget' = w_budget - 1
  /\ w_late' = (w_late \/ \E v \in Workers : InOffer(v))
  /\ UNCHANGED <<offered, w_pc, w_j, w_ret>>

\* the task in hand is finished
WFinish(w) ==
  /\ w_pc[w] = "busy"
  /\ w_pc' = [w_pc EXCEPT ![w] = "work"]
  /\ UNCHANGED <<offered, w_q, w_budget, w_j, w_ret, w_late>>

\* GenericTaskQueue::pop_local returning true
WPopLocal(w) ==
  /\ w_pc[w] = "work"
  /\ dirty_size(w_q[w].bot, w_q[w].top) # 0
  /\ w_q' = [w_q EXCEPT ![w].bot = decrement_index(@)]
  /\ w_pc' = [w_pc EXCEPT ![w] = "busy"]
  /\ UNCHANGED <<offered, w_budget, w_j, w_ret, w_late>>

\* GenericTaskQueue::pop_global on queue v returning true
WSteal(w, v) ==
  /\ w_pc[w] = "work"
  /\ v # w
  /\ size(w_q[v].bot, w_q[v].top) # 0
  /\ w_q' = [w_q EXCEPT ![v].top = increment_index(@)]
  /\ w_pc' = [w_pc EXCEPT ![w] = "busy"]
  /\ UNCHANGED <<offered, w_budget, w_j, w_ret, w_late>>

\* offer_termination, step 1: atomically increment offered
OfferInc(w) ==
  /\ w_pc[w] = "work"
  /\ ~TQ_peek(w_q[w])
  /\ offered' = offered + 1
  /\ w_pc' = [w_pc EXCEPT ![w] = "off_check"]
  /\ w_ret' = [w_ret EXCEPT ![w] = "none"]
  /\ UNCHANGED <<w_q, w_budget, w_j, w_late>>

\* step 1: if offered == T return true
OfferCheck(w) ==
  /\ w_pc[w] = "off_check"
  /\ IF offered = NWorkers
     THEN /\ w_pc' = [w_pc EXCEPT ![w] = "done"]
          /\ w_ret' = [w_ret EXCEPT ![w] = "true"]
     ELSE /\ w_pc' = [w_pc EXCEPT ![w] = "off_yield"]
          /\ UNCHANGED w_ret
  /\ UNCHANGED <<offered, w_q, w_budget, w_j, w_late>>

\* step 2: yield() or sleep(), then query peek_in_queue_set()
OfferYield(w) ==
  /\ w_pc[w] = "off_yield"
  /\ w_pc' = [w_pc EXCEPT ![w] = "off_peek"]
  /\ w_j' = [w_j EXCEPT ![w] = 0]
  /\ UNCHANGED <<offered, w_q, w_budget, w_ret, w_late>>

\* GenericTaskQueueSet::peek: one iteration of "for j < _n: if
\* (_queues[j]->peek()) return true"; when the loop ends with false,
\* step 3 loops back to step 2
OfferPeek(w) ==
  /\ w_pc[w] = "off_peek"
  /\ IF TQ_peek(w_q[w_j[w]])
     THEN /\ w_pc' = [w_pc EXCEPT ![w] = "off_dec"]
          /\ w_j' = [w_j EXCEPT ![w] = 0]
     ELSE IF w_j[w] + 1 < NWorkers
     THEN /\ w_j' = [w_j EXCEPT ![w] = @ + 1]
          /\ UNCHANGED w_pc
     ELSE /\ w_pc' = [w_pc EXCEPT ![w] = "off_yield"]
          /\ w_j' = [w_j EXCEPT ![w] = 0]
  /\ UNCHANGED <<offered, w_q, w_budget, w_ret, w_late>>

OfferDec_no_decrement(w) ==
  /\ w_pc[w] = "off_dec"
  /\ w_pc' = [w_pc EXCEPT ![w] = "work"]
  /\ w_ret' = [w_ret EXCEPT ![w] = "false"]
  /\ UNCHANGED <<offered, w_q, w_budget, w_j, w_late>>

\* step 3: a deque is non-empty: decrement offered and return false
OfferDec(w) ==
  /\ w_pc[w] = "off_dec"
  /\ offered' = offered - 1
  /\ w_pc' = [w_pc EXCEPT ![w] = "work"]
  /\ w_ret' = [w_ret EXCEPT ![w] = "false"]
  /\ UNCHANGED <<w_q, w_budget, w_j, w_late>>

Worker(w) ==
  \/ WPush(w)
  \/ WFinish(w)
  \/ WPopLocal(w)
  \/ (\E v \in Workers : WSteal(w, v))
  \/ OfferInc(w)
  \/ OfferCheck(w)
  \/ OfferYield(w)
  \/ OfferPeek(w)
  \/ OfferDec(w)

InitTerm == DequeInit /\ TermInit /\ StealIdle /\ ScriptIdle

NextTerm == \E w \in Workers : Worker(w) /\ UNCHANGED <<dqvars, stvars, sc>>

SpecTerm == InitTerm /\ [][NextTerm]_vars

\* every worker thread keeps being scheduled
SpecTermFair ==
  SpecTerm /\ \A w \in Workers : WF_vars(Worker(w) /\ UNCHANGED <<dqvars, stvars, sc>>)

AllQueuesEmpty == \A v \in Workers : w_q[v].bot = w_q[v].top
ReturnsTrue(w) == w_pc[w] # "done" /\ w_pc'[w] = "done"

\* C9: whenever a worker's offer_termination returns true, offered == T at
\* that moment and every deque of the queue set is empty.
C9_TrueOnlyAtQuiescence ==
  [][ \A w \in Workers :
        ReturnsTrue(w) => (offered = NWorkers /\ AllQueuesEmpty) ]_vars

\* a worker has returned true after tasks were stolen and after an offer
\* was withdrawn because work was seen
C9_Witness ==
  /\ \E w \in Workers : w_ret[w] = "true"
  /\ \E w \in Workers : w_ret[w] = "false"
  /\ \E w \in Workers : w_q[w].top # 0

\* no task exists and none can be created: every worker is between tasks,
\* inside offer_termination without having seen work, or has returned true
Settled ==
  /\ AllQueuesEmpty
  /\ \A w \in Workers : w_pc[w] \in {"work", "off_check", "off_yield", "off_peek", "done"}

\* C10: once every deque is empty and no work can be pushed any more, all
\* T workers offer termination and every one of the T calls returns true.
C10_Consensus == Settled ~> (\A w \in Workers : w_pc[w] = "done")

\* C11: when a task has been pushed after some worker entered
\* offer_termination, every worker that is inside offer_termination
\* eventually leaves it (returning false after a peek that saw work, or
\* true once all T workers have offered); no offering worker waits forever.
C11_LateWorkLiveness ==
  \A w \in Workers : (w_late /\ InOffer(w)) ~> ~InOffer(w)

(***************************************************************************)
(* GenericTaskQueueSet: steal, steal_best_of_2, steal_1_random.            *)
(* One thread, the owner of queue queue_num, is followed through its call; *)
(* the other threads push on, pop from and steal from the queues of the    *)
(* set in between.  Queue operations are taken as single steps here.       *)
(***************************************************************************)
Queues == 0 .. s_n - 1

\* the values "randomParkAndMiller(seed) % _n" can take
RandomIndex(nq) == 0 .. nq - 1

\* "for (int i = 0; i < 2 * _n; i++)"
StealTries_n(nq) == nq
StealTries(nq) == 2 * nq

\* "int k = (queue_num + 1) % 2;"
OtherOf2(q) == (q + 1) % 2

\* "if (sz2 > sz1) return _queues[k2]->pop_global(t);
\*  else return _queues[k1]->pop_global(t);"
BestOf2Victim_ties_to_k2(k1, k2, sz1, sz2) == IF sz2 >= sz1 THEN k2 ELSE k1
BestOf2Victim(k1, k2, sz1, sz2) == IF sz2 > sz1 THEN k2 ELSE k1

\* "return _queues[2]->pop_global(t);" in steal_1_random, k being the
\* index computed just before
Random1Victim(k) == 2

NoAttempt == [k1 |-> 0, k2 |-> 0, sz1 |-> 0, sz2 |-> 0, victim |-> 0]
\* attempts: calls of steal_best_of_2; npops, nsucc: calls of pop_global and
\* those that returned true; victims: the queues pop_global was called on;
\* sampled: size() was called on some queue; last: the last attempt that
\* reached pop_global
NoHist ==
  [attempts |-> 0, npops |-> 0, nsucc |-> 0, victims |-> {}, sampled |-> FALSE,
   last |-> NoAttempt]

StealInit ==
  /\ s_n \in 1 .. MaxQueues
  /\ s_q = [v \in Queues |-> [bot |-> 0, top |-> 0]]
  /\ s_budget = MaxWork
  /\ s_pc = "idle"
  /\ s_op = "none"
  /\ s_self = 0
  /\ s_i = 0
  /\ s_k1 = 0
  /\ s_k2 = 0
  /\ s_sz1 = 0
  /\ s_sz2 = 0
  /\ s_target = 0
  /\ s_ret = "none"
  /\ s_hist = NoHist

s_locals == <<s_i, s_k1, s_k2, s_sz1, s_sz2, s_target>>

\* the call returns r; its locals die
StealReturn(r) ==
  /\ s_pc' = "idle"
  /\ s_ret' = r
  /\ s_i' = 0
  /\ s_k1' = 0
  /\ s_k2' = 0
  /\ s_sz1' = 0
  /\ s_sz2' = 0
  /\ s_target' = 0

\* the owner of queue v pushes a task (GenericTaskQueue::push returning true)
EnvPush(v) ==
  /\ s_pc = "idle" \/ v # s_self
  /\ s_budget > 0
  /\ dirty_size(s_q[v].bot, s_q[v].top) < max_elems
  /\ s_q' = [s_q EXCEPT ![v].bot = increment_index(@)]
  /\ s_budget' = s_budget - 1
  /\ UNCHANGED <<s_n, s_pc, s_op, s_self, s_locals, s_ret, s_hist>>

\* the owner of queue v pops a task (GenericTaskQueue::pop_local returning true)
EnvPopLocal(v) ==
  /\ s_pc = "idle" \/ v # s_self
  /\ size(s_q[v].bot, s_q[v].top) # 0
  /\ s_q' = [s_q EXCEPT ![v].bot = decrement_index(@)]
  /\ UNCHANGED <<s_n, s_budget, s_pc, s_op, s_self, s_locals, s_ret, s_hist>>

\* bool steal(int queue_num, int* seed, E& t)
StealCall(q) ==
  /\ s_pc = "idle"
  /\ s_pc' = "st_loop"
  /\ s_op' = "steal"
  /\ s_self' = q
  /\ s_i' = 0
  /\ s_ret' = "none"
  /\ s_hist' = NoHist
  /\ UNCHANGED <<s_n, s_q, s_budget, s_k1, s_k2, s_sz1, s_sz2, s_target>>

\* "for (i < 2 * _n) if (steal_best_of_2(...)) return true; return false;"
\* with the entry of steal_best_of_2: the branch on _n
StealLoop ==
  /\ s_pc = "st_loop"
  /\ IF s_i < StealTries(s_n)
     THEN /\ s_hist' = [s_hist EXCEPT !.attempts = @ + 1]
          /\ UNCHANGED s_ret
          /\ IF s_n > 2
             THEN /\ s_pc' = "b2_k1"
                  /\ s_k1' = s_self
                  /\ UNCHANGED <<s_i, s_k2, s_sz1, s_sz2, s_target>>
             ELSE IF s_n = 2
             THEN /\ s_pc' = "b2_pop"
                  /\ s_target' = OtherOf2(s_self)
                  /\ UNCHANGED <<s_i, s_k1, s_k2, s_sz1, s_sz2>>
             ELSE /\ s_i' = s_i + 1
                  /\ UNCHANGED <<s_pc, s_k1, s_k2, s_sz1, s_sz2, s_target>>
     ELSE /\ StealReturn("false")
          /\ UNCHANGED s_hist
  /\ UNCHANGED <<s_n, s_q, s_budget, s_op, s_self>>

\* "while (k1 == queue_num) k1 = randomParkAndMiller(seed) % _n;"
B2PickK1 ==
  /\ s_pc = "b2_k1"
  /\ \E r \in RandomIndex(s_n) :
       /\ s_k1' = r
       /\ IF r = s_self
          THEN UNCHANGED <<s_pc, s_k2>>
          ELSE s_pc' = "b2_k2" /\ s_k2' = s_self
  /\ UNCHANGED <<s_n, s_q, s_budget, s_op, s_self, s_i, s_sz1, s_sz2, s_target,
                 s_ret, s_hist>>

\* "while (k2 == queue_num || k2 == k1) k2 = randomParkAndMiller(seed) % _n;"
B2PickK2 ==
  /\ s_pc = "b2_k2"
  /\ \E r \in RandomIndex(s_n) :
       /\ s_k2' = r
       /\ s_pc' = IF r = s_self \/ r = s_k1 THEN "b2_k2" ELSE "b2_sz1"
  /\ UNCHANGED <<s_n, s_q, s_budget, s_op, s_self, s_i, s_k1, s_sz1, s_sz2,
                 s_target, s_ret, s_hist>>

\* "juint sz1 = _queues[k1]->size();"
B2Size1 ==
  /\ s_pc = "b2_sz1"
  /\ s_sz1' = size(s_q[s_k1].bot, s_q[s_k1].top)
  /\ s_hist' = [s_hist EXCEPT !.sampled = TRUE]
  /\ s_pc' = "b2_sz2"
  /\ UNCHANGED <<s_n, s_q, s_budget, s_op, s_self, s_i, s_k1, s_k2, s_sz2,
                 s_target, s_ret>>

\* "juint sz2 = _queues[k2]->size();" and the choice of the queue to try
B2Size2 ==
  /\ s_pc = "b2_sz2"
  /\ s_sz2' = size(s_q[s_k2].bot, s_q[s_k2].top)
  /\ s_target' = BestOf2Victim(s_k1, s_k2, s_sz1, s_sz2')
  /\ s_pc' = "b2_pop"
  /\ UNCHANGED <<s_n, s_q, s_budget, s_op, s_self, s_i, s_k1, s_k2, s_sz1,
                 s_ret, s_hist>>

\* _queues[s_target]->pop_global(t): false on an empty queue; on a
\* non-empty one the element at top goes to this thread (won) or to a
\* competing pop_global
PopGlobalOn(won) ==
  LET v == s_target
      nonempty == size(s_q[v].bot, s_q[v].top) > 0
  IN  /\ won => nonempty
      /\ s_q' = IF nonempty THEN [s_q EXCEPT ![v].top = increment_index(@)] ELSE s_q
      /\ s_hist' = [s_hist EXCEPT !.npops = @ + 1,
                                  !.nsucc = IF won THEN @ + 1 ELSE @,
                                  !.victims = @ \cup {v},
                                  !.last = [k1 |-> s_k1, k2 |-> s_k2, sz1 |-> s_sz1,
                                            sz2 |-> s_sz2, victim |-> v]]

\* the pop_global call of steal_best_of_2, and the "if (...) return true" of steal
B2Pop ==
  /\ s_pc = "b2_pop"
  /\ \E won \in BOOLEAN :
       /\ PopGlobalOn(won)
       /\ IF won
          THEN StealReturn("true")
          ELSE /\ s_pc' = "st_loop"
               /\ s_i' = s_i + 1
               /\ s_k1' = 0
               /\ s_k2' = 0
               /\ s_sz1' = 0
               /\ s_sz2' = 0
               /\ s_target' = 0
               /\ UNCHANGED s_ret
  /\ UNCHANGED <<s_n, s_budget, s_op, s_self>>

\* bool steal_1_random(int queue_num, int* seed, E& t): the branch on _n
Random1Call(q) ==
  /\ s_pc = "idle"
  /\ s_op' = "random"
  /\ s_self' = q
  /\ s_hist' = NoHist
  /\ IF s_n > 2
     THEN /\ s_pc' = "r1_k"
          /\ s_k1' = q
          /\ s_ret' = "none"
          /\ UNCHANGED <<s_i, s_k2, s_sz1, s_sz2, s_target>>
     ELSE IF s_n = 2
     THEN /\ s_pc' = "r1_pop"
          /\ s_target' = OtherOf2(q)
          /\ s_ret' = "none"
          /\ UNCHANGED <<s_i, s_k1, s_k2, s_sz1, s_sz2>>
     ELSE StealReturn("false")
  /\ UNCHANGED <<s_n, s_q, s_budget>>

\* "while (k == queue_num) k = randomParkAndMiller(seed) % _n;"
R1PickK ==
  /\ s_pc = "r1_k"
  /\ \E r \in RandomIndex(s_n) :
       /\ s_k1' = r
       /\ IF r = s_self
          THEN UNCHANGED <<s_pc, s_target>>
          ELSE s_pc' = "r1_pop" /\ s_target' = Random1Victim(r)
  /\ UNCHANGED <<s_n, s_q, s_budget, s_op, s_self, s_i, s_k2, s_sz1, s_sz2,
                 s_ret, s_hist>>

\* the pop_global call of steal_1_random
R1Pop ==
  /\ s_pc = "r1_pop"
  /\ \E won \in BOOLEAN :
       /\ PopGlobalOn(won)
       /\ StealReturn(IF won THEN "true" ELSE "false")
  /\ UNCHANGED <<s_n, s_budget, s_op, s_self>>

Stealer ==
  \/ (\E q \in Queues : StealCall(q))
  \/ StealLoop
  \/ B2PickK1
  \/ B2PickK2
  \/ B2Size1
  \/ B2Size2
  \/ B2Pop
  \/ (\E q \in Queues : Random1Call(q))
  \/ R1PickK
  \/ R1Pop

InitSteal == DequeInit /\ TermIdle /\ StealInit /\ ScriptIdle

NextSteal ==
  \/ (Stealer /\ UNCHANGED <<dqvars, tmvars, sc>>)
  \/ (\E v \in Queues : EnvPush(v) /\ UNCHANGED <<dqvars, tmvars, sc>>)
  \/ (\E v \in Queues : EnvPopLocal(v) /\ UNCHANGED <<dqvars, tmvars, sc>>)

SpecSteal == InitSteal /\ [][NextSteal]_vars

\* C12: a call steal(queue_num) on a set of n queues makes at most 2*n
\* steal_best_of_2 attempts, returns true at the first attempt whose
\* pop_global succeeds and false only after all 2*n attempts failed; no
\* attempt calls pop_global on the caller's own queue; with n == 2 every
\* attempt targets the other queue; with n == 1 it returns false without
\* touching any deque.
C12_StealAttempts ==
  s_op = "steal" =>
    /\ s_hist.attempts <= 2 * s_n
    /\ s_hist.nsucc <= 1
    /\ s_hist.nsucc = 1 => (s_pc = "idle" /\ s_ret = "true")
    /\ (s_pc = "idle" /\ s_ret = "true") => s_hist.nsucc = 1
    /\ (s_pc = "idle" /\ s_ret = "false") =>
         (s_hist.attempts = 2 * s_n /\ s_hist.nsucc = 0)
    /\ s_self \notin s_hist.victims
    /\ s_n = 2 => s_hist.victims \subseteq {1 - s_self}
    /\ s_n = 1 => (s_hist.npops = 0 /\ ~s_hist.sampled /\ s_ret # "true")

\* steal on three queues has returned true after an attempt that failed,
\* while the caller's own queue held a task
C12_Witness ==
  /\ s_op = "steal"
  /\ s_n = 3
  /\ s_pc = "idle"
  /\ s_ret = "true"
  /\ s_hist.attempts > 1
  /\ size(s_q[s_self].bot, s_q[s_self].top) > 0

\* C13: steal_1_random on a set of more than two queues calls pop_global
\* on the queue whose index k it has just computed, and k is never the
\* caller's own index: the caller never steals from its own deque.
C13_Random1Victim ==
  (s_op = "random" /\ s_n > 2 /\ s_hist.npops > 0) =>
    /\ s_hist.last.victim = s_hist.last.k1
    /\ s_hist.last.victim # s_self

\* C14: steal_best_of_2 on a set of more than two queues picks k1 and k2
\* distinct from each other and from the caller, samples size() of both,
\* and makes exactly one pop_global call: on k2 if size(k2) > size(k1),
\* otherwise (ties included) on k1.
C14_BestOf2 ==
  /\ [] ( (s_op = "steal" /\ s_n > 2) =>
            /\ s_hist.npops > 0 =>
                 LET a == s_hist.last
                 IN  /\ a.k1 # a.k2
                     /\ a.k1 # s_self
                     /\ a.k2 # s_self
                     /\ a.victim = IF a.sz2 > a.sz1 THEN a.k2 ELSE a.k1
            /\ s_hist.npops =
                 IF s_pc \in {"idle", "st_loop"} THEN s_hist.attempts
                 ELSE s_hist.attempts - 1 )
  /\ [][ /\ (s_pc = "b2_sz1" /\ s_pc' = "b2_sz2") =>
              s_sz1' = size(s_q[s_k1].bot, s_q[s_k1].top)
         /\ (s_pc = "b2_sz2" /\ s_pc' = "b2_pop") =>
              s_sz2' = size(s_q[s_k2].bot, s_q[s_k2].top)
         /\ (s_pc = "b2_pop" /\ s_pc' # "b2_pop" /\ s_n > 2) =>
              (s_hist'.last.sz1 = s_sz1 /\ s_hist'.last.sz2 = s_sz2) ]_vars

\* an attempt sampled two equal, non-zero sizes and called pop_global on k1
C14_Witness ==
  /\ s_op = "steal"
  /\ s_n > 2
  /\ s_hist.npops > 0
  /\ s_hist.last.sz1 = s_hist.last.sz2
  /\ s_hist.last.sz1 > 0
  /\ s_hist.last.victim = s_hist.last.k1

(***************************************************************************)
(* Further properties of one deque.                                        *)
(***************************************************************************)
InPopLocal == o_pc \in {"pl_dec", "pl_top", "pl_age", "pl_cas", "pl_set_age"}
InPush == o_pc \in {"push_top", "push_store", "push_publish"}
\* this step is the return of pop_local from pop_local_slow
SlowReturn == o_pc \in {"pl_cas", "pl_set_age"} /\ o_pc' = "idle"
\* this step is a step of thief t
ThiefStep(t) == g_pc'[t] # g_pc[t]
\* this step is a step of the owner inside push
PushStep == (o_pc = "idle" /\ o_pc' = "push_top") \/ (InPush /\ o_pc' # o_pc)

\* C15: when the last element is contested between pop_local and
\* pop_global calls, exactly one of them returns true; when pop_local
\* returns from its slow path, having won or lost, the deque is canonically
\* empty (top == bottom, size() == 0, the tag one greater, as a 16-bit
\* number, than in the age the owner read) and every pushed element has been
\* returned exactly once; and while the deque is in that state, until the
\* next push has published its element, no pop_global and no pop_local
\* returns true.
C15_ContestedLast ==
  [][ /\ SlowReturn =>
           /\ age'.top = bottom'
           /\ size(bottom', age'.top) = 0
           /\ age'.tag = (o_oldAge.tag + 1) % TagMod
           /\ \A e \in 1 .. pushed : PopCount(e)' = 1
      /\ (age.top = bottom /\ ~InPopLocal) =>
           /\ \A t \in Thieves : ~StealStep(t)
           /\ ~LocalPopStep
           /\ (o_pc = "idle" /\ o_res' # o_res /\ o_pc' # "push_top") =>
                o_res' = "pop_false" ]_vars

\* one element was pushed; a thief took it while the owner was in
\* pop_local, the owner returned false from its slow path, and the other
\* thief's later pop_global found the deque empty
C15_Witness ==
  /\ pushed = 1
  /\ o_pc = "idle"
  /\ o_res = "pop_false"
  /\ age.tag = 1
  /\ age.top = bottom
  /\ \E t, u \in Thieves : g_res[t] = "true" /\ g_res[u] = "empty"

\* C16 as stated: the tag only ever increases, and a pop_global that read
\* age before a pop_local slow path returned never succeeds its CAS
\* afterwards.
C16_TagOnlyIncreases ==
  [][ /\ age'.tag >= age.tag
      /\ \A t \in Thieves : (g_stale[t] /\ ThiefStep(t)) => ~StealStep(t) ]_vars

\* C16: the tag is a counter modulo 2^16: every write of age leaves it or
\* adds one to it, wrapping from 65535 to 0; a pop_local slow path writes
\* the tag it read plus one, a successful pop_global adds one exactly when
\* it moves top to 0; and (fewer than 2^16 such increments lying in between)
\* a pop_global that read age before a pop_local slow path returned does
\* not succeed its CAS afterwards, even when the owner has pushed again:
\* it claims neither the stale element nor the newly pushed one.
C16_TagModular ==
  [][ /\ age'.tag \in {age.tag, (age.tag + 1) % TagMod}
      /\ SlowReturn => age'.tag = (o_oldAge.tag + 1) % TagMod
      /\ \A t \in Thieves :
           StealStep(t) =>
             age'.tag = IF age'.top = 0 THEN (age.tag + 1) % TagMod ELSE age.tag
      /\ \A t \in Thieves :
           (g_stale[t] /\ ThiefStep(t)) =>
             (~StealStep(t) /\ age' = age /\ elems' = elems /\ stolen' = stolen) ]_vars

\* a thief is about to try its CAS with the age it read before the owner's
\* slow path returned; the owner has pushed again since, top and bottom
\* have the values the thief saw, and the tag has wrapped to 0 in between
C16_Witness ==
  \E t \in Thieves :
    /\ g_pc[t] = "pg_cas"
    /\ g_stale[t]
    /\ o_pc = "idle"
    /\ o_res = "push_true"
    /\ age.top = g_oldAge[t].top
    /\ bottom = g_localBot[t]
    /\ g_oldAge[t].tag = TagMod - 1
    /\ age.tag = 0

\* C17: whenever the owner is not inside pop_local, the dirty size
\* (bottom - top) mod N lies in 0 .. N-2 and is never N-1; none of the
\* asserts "dirty_size != n-1" (entry of pop_local, pop_local_slow after the
\* CAS and after set_age, pop_global) fails; push never computes a dirty
\* size of N-1, so the branch of push_slow for it is never taken; and when
\* the deque has been drained and no call is in progress, top == bottom.
\* (The asserts of pop_local_slow read top again after the write of age:
\* whatever they can read then is what a state with the owner outside
\* pop_local and bottom unchanged shows, which the second conjunct covers.)
C17_DirtySizeNeverNMinus1 ==
  /\ ~assertFailed
  /\ ~InPopLocal => dirty_size(bottom, age.top) \in 0 .. n - 2
  /\ (InPush /\ o_pc # "push_top") => o_dirty # n - 1
  /\ (o_pc = "idle" /\ o_res \in {"push_true", "push_false"}) => o_dirty # n - 1
  /\ (Quiescent /\ Live = 0) => age.top = bottom

\* two elements were pushed and both thieves took one, the second while the
\* owner was inside pop_local; the owner's slow path has put top back on
\* bottom, away from slot 0, and all calls have returned
C17_Witness ==
  /\ Quiescent
  /\ Live = 0
  /\ pushed = 2
  /\ age.tag = 1
  /\ o_res = "pop_false"
  /\ \A t \in Thieves : g_res[t] = "true"
  /\ NLocal = 0
  /\ age.top = bottom
  /\ bottom # 0

\* C18: offered always equals the number of workers that have entered
\* offer_termination and have not returned false from it (those still
\* inside the call plus those that returned true); it is incremented
\* exactly once on entry, decremented exactly once when a call returns
\* false, changed by no other step, and 0 <= offered <= T.
C18_OfferedCounts ==
  /\ [] ( /\ offered = Cardinality({w \in Workers : InOffer(w) \/ w_pc[w] = "done"})
          /\ offered \in 0 .. NWorkers )
  /\ [][ \A w \in Workers :
           w_pc'[w] # w_pc[w] =>
             offered' = IF ~InOffer(w) /\ InOffer(w)' THEN offered + 1
                        ELSE IF InOffer(w) /\ w_pc'[w] = "work" THEN offered - 1
                        ELSE offered ]_vars

\* late work made a worker's offer_termination return false; another
\* worker, from whose queue a task was stolen, is inside the call
C18_Witness ==
  /\ w_late
  /\ offered = 1
  /\ \E w, v \in Workers :
       /\ w_ret[w] = "false"
       /\ w_pc[w] = "work"
       /\ w_pc[v] = "off_peek"
       /\ w_q[v].top # 0

(***************************************************************************)
(* The wrap-around scenario: on a fresh deque the owner makes N-2 calls of *)
(* push (phase 1), N-2 calls of pop_local (phase 2) and N-2 calls of push  *)
(* (phase 3); thieves may call pop_global throughout.                      *)
(***************************************************************************)
ScriptLen == n - 2

ScriptInit == sc = [phase |-> 1, k |-> 0, ok |-> TRUE, wrapped |-> FALSE]

\* top went from a higher index to a lower one
TopWraps == age'.top < age.top

\* the script after this step; a step that leaves the owner idle is the
\* return of the current call
ScriptAdvance ==
  IF o_pc' = "idle"
  THEN [phase |-> IF sc.k + 1 = ScriptLen THEN sc.phase + 1 ELSE sc.phase,
        k |-> IF sc.k + 1 = ScriptLen THEN 0 ELSE sc.k + 1,
        ok |-> sc.ok /\ o_res' \in {"push_true", "pop_true"},
        wrapped |-> sc.wrapped \/ TopWraps]
  ELSE [sc EXCEPT !.wrapped = @ \/ TopWraps]

ScriptOwner ==
  /\ sc.phase \in 1 .. 3
  /\ IF o_pc = "idle"
     THEN IF sc.phase = 2 THEN PopLocalCall ELSE PushCall
     ELSE Owner
  /\ sc' = ScriptAdvance

ScriptThief(t) ==
  /\ Thief(t)
  /\ sc' = [sc EXCEPT !.wrapped = @ \/ TopWraps]

InitScript == DequeInit /\ TermIdle /\ StealIdle /\ ScriptInit

NextScript ==
  \/ (ScriptOwner /\ UNCHANGED <<tmvars, stvars>>)
  \/ (\E t \in Thieves : ScriptThief(t) /\ UNCHANGED <<tmvars, stvars>>)

SpecScript == InitScript /\ [][NextScript]_vars

ScriptDone == sc.phase = 4

\* C19 as stated: after N-2 pushes, N-2 pop_locals and N-2 further pushes
\* on a fresh deque, all of which succeeded, top has wrapped past 0 at
\* least once and the tag has been incremented.
C19_WrapScenario ==
  (ScriptDone /\ NGlobal = 0) => (sc.ok /\ sc.wrapped /\ age.tag >= 1)

\* C19: on a fresh deque from which no pop_global takes an element, N-2
\* pushes, N-2 pop_locals and N-2 further pushes all succeed; in the
\* resulting state the tag has been incremented, once, by the slow path of
\* the last pop_local, bottom is N-2, and top is still 0: it has not moved
\* and has not wrapped.
C19_WrapScenarioTopStays ==
  (ScriptDone /\ NGlobal = 0) =>
    /\ sc.ok
    /\ age.tag = 1
    /\ age.top = 0
    /\ ~sc.wrapped
    /\ bottom = n - 2
    /\ NLocal = n - 2
    /\ pushed = 2 * (n - 2)

\* the scenario has run to its end without any steal, while thieves called
\* pop_global and failed
C19_Witness ==
  /\ ScriptDone
  /\ NGlobal = 0
  /\ o_res = "push_true"
  /\ \E t, u \in Thieves : g_res[t] = "lost" /\ g_res[u] = "empty"

\* this step is a step of the owner
OwnerStep == o_pc' # o_pc \/ o_res' # o_res \/ o_dirty' # o_dirty

\* C20: pop_global never writes bottom or a buffer slot, and a pop_global
\* that returns false leaves bottom, age and the buffer unchanged; push
\* never writes age; bottom is written only by the owner, in push and in
\* pop_local; the owner writes age only in the slow path of pop_local.
C20_MutationRights ==
  [][ /\ \A t \in Thieves :
           ThiefStep(t) =>
             /\ bottom' = bottom
             /\ elems' = elems
             /\ g_res'[t] \in {"empty", "lost"} => age' = age
             /\ age' # age => (g_pc[t] = "pg_cas" /\ g_res'[t] = "true")
      /\ PushStep => age' = age
      /\ bottom' # bottom => (OwnerStep /\ o_pc \in {"push_publish", "pl_dec"})
      /\ elems' # elems => (OwnerStep /\ o_pc = "push_store")
      /\ (OwnerStep /\ age' # age) => o_pc \in {"pl_cas", "pl_set_age"} ]_vars

\* both thieves have returned false, one on an empty deque and one from a
\* lost CAS, after the owner's slow path rewrote age and a later push
C20_Witness ==
  /\ o_pc = "idle"
  /\ o_res = "push_true"
  /\ age.tag >= 1
  /\ bottom # age.top
  /\ \E t, u \in Thieves : g_res[t] = "lost" /\ g_res[u] = "empty"
  /\ NGlobal >= 1

====
